---- MODULE Spec2Model ----
(***************************************************************************)
(* State-machine model of claude_agent_sdk/api_server.py: the              *)
(* SessionManager registry, the FastAPI request handlers that use it, the  *)
(* two response modes of the query endpoints, and the lifespan shutdown.   *)
(*                                                                         *)
(* Handlers run on one asyncio event loop: a step of the model is the code *)
(* a coroutine runs between two suspension points (an await on the SDK     *)
(* client, or on the next upstream message).  The SDK client itself is an  *)
(* external collaborator: each awaited call on it either returns or raises.*)
(***************************************************************************)
EXTENDS Naturals, Sequences, FiniteSets, Bags, TLC

(***************************************************************************)
(* Bounds of the model.                                                    *)
(***************************************************************************)
\* request handlers that can be in flight at once (asyncio tasks)
MaxTasks == 2
\* requests that arrive in one run
MaxRequests == 3
\* ClaudeSDKClient objects constructed in one run
MaxClients == 2
\* messages an upstream sequence yields at most
MaxMsgs == 2

VARIABLES
    sessions,         \* SessionManager.sessions: dict, in insertion order
    session_options,  \* SessionManager.session_options: dict, insertion order
    clients,          \* the ClaudeSDKClient objects constructed so far
    uuids,            \* number of uuid4() values drawn so far
    tasks,            \* the request handlers, a bag: position and locals of each
    shutdown,         \* the lifespan: position in close_all_sessions
    requests          \* requests that have arrived

vars == <<sessions, session_options, clients, uuids, tasks, shutdown, requests>>

(***************************************************************************)
(* Python dict, as the sequence of its items in insertion order.           *)
(***************************************************************************)
Keys(d) == {d[i].key : i \in 1..Len(d)}

\* list(d.keys())
KeyList(d) == [i \in 1..Len(d) |-> d[i].key]

DictIndex(d, k) == CHOOSE i \in 1..Len(d) : d[i].key = k

\* None, where a client object is expected (client objects are 1, 2, ...)
None == 0

\* d.get(k)
DictGet(d, k) == IF k \in Keys(d) THEN d[DictIndex(d, k)].val ELSE None

\* d[k] = v
DictSet(d, k, v) ==
    IF k \in Keys(d)
    THEN [d EXCEPT ![DictIndex(d, k)].val = v]
    ELSE Append(d, [key |-> k, val |-> v])

\* del d[k], for k in d (the callers raise KeyError otherwise)
DictDel(d, k) == SelectSeq(d, LAMBDA e : e.key # k)

(***************************************************************************)
(* Values the handlers convert.                                            *)
(***************************************************************************)
\* str(uuid.uuid4()): the n-th value drawn; uuid4 values are taken to be
\* pairwise distinct
Uuid4Str(n) == "uuid-" \o ToString(n)

\* the ids a caller can name: those handed out so far, and an unknown one
SidInputs == {Uuid4Str(n) : n \in 1..uuids} \cup {"nonexistent-id"}

\* request.options: absent, a dict ClaudeAgentOptions accepts, one it rejects
OptionInputs == {"None", "valid", "invalid"}

\* request.prompt
Prompts == {"Hello", ""}

\* exceptions the collaborators raise
TypeError    == [type |-> "TypeError",    msg |-> "unexpected keyword argument"]
OpenError    == [type |-> "CLIConnectionError", msg |-> "failed to open"]
CloseError   == [type |-> "CLIConnectionError", msg |-> "failed to close"]
KeyError     == [type |-> "KeyError",     msg |-> "session_id"]
SendError    == [type |-> "CLIConnectionError", msg |-> "failed to send"]
StreamError  == [type |-> "ProcessError",  msg |-> "upstream failed"]

\* str(e)
ExcStr(e) == e.msg

\* the k-th message of an upstream sequence, and str(message)
Message(k) == [seq |-> k]
MessageStr(m) == "Message(" \o ToString(m.seq) \o ")"

\* one SSE event: f"data: {json.dumps(payload)}\n\n"
MessageFrame(content) == [type |-> "message", data |-> content]
DoneFrame             == [type |-> "done",    data |-> ""]
ErrorFrame(error)     == [type |-> "error",   data |-> error]

(***************************************************************************)
(* A request handler.                                                      *)
(***************************************************************************)
Idle == [kind |-> "idle", pc |-> "idle", sid |-> "", opts |-> "None",
         stream |-> FALSE,
         client |-> None,      \* local: client
         found |-> FALSE,      \* close_session took the branch of line 93
         n |-> 0,              \* upstream messages received
         up |-> "none",        \* how the upstream sequence ended
         json |-> FALSE,       \* generate(): local name json is bound
         messages |-> <<>>,    \* local: messages
         frames |-> <<>>,      \* events the response body has carried
         aborted |-> FALSE,    \* generate() ended by raising
         status |-> 0,         \* HTTP status, 0 while none is sent
         detail |-> "",        \* error detail of the response
         body |-> <<>>,        \* session ids or messages of the response
         count |-> 0]          \* count / active_sessions of the response

\* the handlers are asyncio tasks without identity: the bag holds those in
\* flight and those that have answered (pc = "done"), MaxTasks at most
Handlers == BagToSet(tasks)

\* a request arrives while the process runs
Arrives ==
    /\ shutdown.pc # "done"
    /\ requests < MaxRequests

\* the handler of a new request, r being its state at its first suspension
\* (or its answer): it takes a free place, or that of an answered request
Accept(r) ==
    /\ requests' = requests + 1
    /\ \/ /\ BagCardinality(tasks) < MaxTasks
          /\ tasks' = tasks (+) SetToBag({r})
       \/ \E old \in Handlers :
             /\ old.pc = "done"
             /\ tasks' = (tasks (-) SetToBag({old})) (+) SetToBag({r})

\* handler r runs to its next suspension (or its answer), r2
Step(r, r2) == tasks' = (tasks (-) SetToBag({r})) (+) SetToBag({r2})

\* the response of an HTTPException(status_code, detail)
HTTPException(r, status_code, detail) ==
    [r EXCEPT !.pc = "done", !.status = status_code, !.detail = detail]

\* the response to an exception no handler catches (Starlette's
\* ServerErrorMiddleware)
InternalServerError(r) ==
    [r EXCEPT !.pc = "done", !.status = 500, !.detail = "Internal Server Error"]

Init ==
    /\ sessions = <<>>
    /\ session_options = <<>>
    /\ clients = <<>>
    /\ uuids = 0
    /\ tasks = EmptyBag
    /\ shutdown = [pc |-> "serving", snapshot |-> <<>>, i |-> 0,
                   client |-> None, attempted |-> {}, raised |-> FALSE]
    /\ requests = 0

(***************************************************************************)
(* ClaudeSDKClient, seen from its caller.                                  *)
(***************************************************************************)
\* ClaudeSDKClient(options=options), then the call of __aenter__
NewClient(options, session_id) ==
    [state |-> "opening", options |-> options, sid |-> session_id,
     closes |-> 0, prompts |-> 0]

\* client.__aexit__(None, None, None) is called
AexitCalled(c) ==
    [clients EXCEPT ![c].state = "closing", ![c].closes = @ + 1]

\* ... and returns, or raises
AexitReturned(c) == [clients EXCEPT ![c].state = "closed"]
AexitRaised(c) == [clients EXCEPT ![c].state = "close_failed"]

(***************************************************************************)
(* POST /sessions: create_session and SessionManager.create_session.       *)
(***************************************************************************)
\* the process has not exited: the lifespan's shutdown has not finished
Running == shutdown.pc # "done"

\* create_session with lines 82-83 moved before the await of line 80
create_session_store_first ==
    /\ Arrives
    /\ \E o \in OptionInputs :
        LET r == [Idle EXCEPT !.kind = "create", !.opts = o] IN
        IF o = "invalid"
        THEN /\ Accept(HTTPException(r, 500, ExcStr(TypeError)))
             /\ UNCHANGED <<clients, uuids, sessions, session_options>>
        ELSE /\ Len(clients) < MaxClients
             /\ LET session_id == Uuid4Str(uuids + 1)
                    options == IF o = "None" THEN "default" ELSE "custom"
                IN /\ uuids' = uuids + 1
                   /\ clients' = Append(clients, NewClient(options, session_id))
                   /\ sessions' = DictSet(sessions, session_id, Len(clients) + 1)
                   /\ session_options' = DictSet(session_options, session_id, options)
                   /\ Accept([r EXCEPT !.pc = "aenter", !.sid = session_id,
                                       !.client = Len(clients) + 1])
    /\ UNCHANGED shutdown

\* lines 213-219 and 74-80: up to the await of client.__aenter__()
create_session ==
    /\ Arrives
    /\ \E o \in OptionInputs :
        LET r == [Idle EXCEPT !.kind = "create", !.opts = o] IN
        IF o = "invalid"
        THEN \* ClaudeAgentOptions(**request.options) raises
             /\ Accept(HTTPException(r, 500, ExcStr(TypeError)))
             /\ UNCHANGED <<clients, uuids>>
        ELSE /\ Len(clients) < MaxClients
             /\ LET session_id == Uuid4Str(uuids + 1)
                    options == IF o = "None" THEN "default" ELSE "custom"
                IN /\ uuids' = uuids + 1
                   /\ clients' = Append(clients, NewClient(options, session_id))
                   /\ Accept([r EXCEPT !.pc = "aenter", !.sid = session_id,
                                       !.client = Len(clients) + 1])
    /\ UNCHANGED <<sessions, session_options, shutdown>>

\* create_session_opened without line 82: only the options are stored
create_session_opened_unstored ==
    \E r \in Handlers :
    /\ r.kind = "create" /\ r.pc = "aenter"
    /\ Running
    /\ clients' = [clients EXCEPT ![r.client].state = "open"]
    /\ session_options' = DictSet(session_options, r.sid, clients[r.client].options)
    /\ Step(r, [r EXCEPT !.pc = "done", !.status = 200, !.body = <<r.sid>>])
    /\ UNCHANGED <<sessions, uuids, shutdown, requests>>

\* lines 80-85 and 221-224: __aenter__ returned
create_session_opened ==
    \E r \in Handlers :
    /\ r.kind = "create" /\ r.pc = "aenter"
    /\ Running
    /\ clients' = [clients EXCEPT ![r.client].state = "open"]
    /\ sessions' = DictSet(sessions, r.sid, r.client)
    /\ session_options' = DictSet(session_options, r.sid, clients[r.client].options)
    /\ Step(r, [r EXCEPT !.pc = "done", !.status = 200, !.body = <<r.sid>>])
    /\ UNCHANGED <<uuids, shutdown, requests>>

\* lines 80 and 226-227: __aenter__ raised
create_session_open_failed ==
    \E r \in Handlers :
    /\ r.kind = "create" /\ r.pc = "aenter"
    /\ Running
    /\ clients' = [clients EXCEPT ![r.client].state = "open_failed"]
    /\ Step(r, HTTPException(r, 500, ExcStr(OpenError)))
    /\ UNCHANGED <<sessions, session_options, uuids, shutdown, requests>>

(***************************************************************************)
(* SessionManager lookups and the endpoints that only read.                *)
(***************************************************************************)
\* get_session ignoring its key: the oldest session's client, if any
get_session_first(session_id) ==
    IF sessions = <<>> THEN None ELSE sessions[1].val

\* self.sessions.get(session_id)
get_session(session_id) == DictGet(sessions, session_id)

\* list(self.sessions.keys())
list_sessions == KeyList(sessions)

\* GET /sessions/{session_id}
get_session_info ==
    /\ Arrives
    /\ \E session_id \in SidInputs :
        LET r == [Idle EXCEPT !.kind = "get", !.sid = session_id]
            client == get_session(session_id)
        IN IF client = None
           THEN Accept(HTTPException(r, 404, "Session not found"))
           ELSE Accept([r EXCEPT !.pc = "done", !.client = client,
                                 !.status = 200, !.body = <<session_id>>])
    /\ UNCHANGED <<sessions, session_options, clients, uuids, shutdown>>

\* GET /sessions
list_sessions_endpoint ==
    /\ Arrives
    /\ Accept([Idle EXCEPT !.kind = "list", !.pc = "done", !.status = 200,
                           !.body = list_sessions, !.count = Len(sessions)])
    /\ UNCHANGED <<sessions, session_options, clients, uuids, shutdown>>

\* health_check counting the clients constructed, not the registry's keys
health_check_counts_clients ==
    /\ Arrives
    /\ Accept([Idle EXCEPT !.kind = "health", !.pc = "done", !.status = 200,
                           !.count = Len(clients)])
    /\ UNCHANGED <<sessions, session_options, clients, uuids, shutdown>>

\* GET /health
health_check ==
    /\ Arrives
    /\ Accept([Idle EXCEPT !.kind = "health", !.pc = "done", !.status = 200,
                           !.count = Len(sessions)])
    /\ UNCHANGED <<sessions, session_options, clients, uuids, shutdown>>

(***************************************************************************)
(* DELETE /sessions/{session_id}: delete_session and                       *)
(* SessionManager.close_session.                                           *)
(***************************************************************************)
\* close_session without lines 97-98: the options of the id stay behind
close_session_del_sessions_only(session_id) ==
    /\ sessions' = DictDel(sessions, session_id)
    /\ session_options' = session_options

\* lines 96-98: the two del statements, for session_id in self.sessions
close_session_del(session_id) ==
    /\ sessions' = DictDel(sessions, session_id)
    /\ session_options' =
           IF session_id \in Keys(session_options)
           THEN DictDel(session_options, session_id)
           ELSE session_options

\* close_session removing the entry before it awaits the client's close
delete_session_del_first ==
    /\ Arrives
    /\ \E session_id \in SidInputs :
        LET r == [Idle EXCEPT !.kind = "delete", !.sid = session_id] IN
        IF session_id \in Keys(sessions)
        THEN LET client == DictGet(sessions, session_id) IN
             /\ close_session_del(session_id)
             /\ clients' = AexitCalled(client)
             /\ Accept([r EXCEPT !.pc = "aexit", !.client = client,
                                 !.found = TRUE])
        ELSE /\ Accept(HTTPException(r, 404, "Session not found"))
             /\ UNCHANGED <<sessions, session_options, clients>>
    /\ UNCHANGED <<uuids, shutdown>>

\* lines 305 and 93-95: up to the await of client.__aexit__(); line 100 and
\* lines 307-308 when the id is absent
delete_session ==
    /\ Arrives
    /\ \E session_id \in SidInputs :
        LET r == [Idle EXCEPT !.kind = "delete", !.sid = session_id] IN
        IF session_id \in Keys(sessions)
        THEN LET client == DictGet(sessions, session_id) IN
             /\ clients' = AexitCalled(client)
             /\ Accept([r EXCEPT !.pc = "aexit", !.client = client,
                                 !.found = TRUE])
        ELSE /\ Accept(HTTPException(r, 404, "Session not found"))
             /\ UNCHANGED clients
    /\ UNCHANGED <<sessions, session_options, uuids, shutdown>>

\* lines 96-99 and 310-313: __aexit__ returned
delete_session_closed ==
    \E r \in Handlers :
    /\ r.kind = "delete" /\ r.pc = "aexit"
    /\ Running
    /\ clients' = AexitReturned(r.client)
    /\ IF r.sid \in Keys(sessions)
       THEN /\ close_session_del(r.sid)
            /\ Step(r, [r EXCEPT !.pc = "done", !.status = 200])
       ELSE \* del self.sessions[session_id] raises KeyError
            /\ Step(r, InternalServerError(r))
            /\ UNCHANGED <<sessions, session_options>>
    /\ UNCHANGED <<uuids, shutdown, requests>>

\* line 95: __aexit__ raised; neither close_session nor delete_session
\* catches it
delete_session_close_failed ==
    \E r \in Handlers :
    /\ r.kind = "delete" /\ r.pc = "aexit"
    /\ Running
    /\ clients' = AexitRaised(r.client)
    /\ Step(r, InternalServerError(r))
    /\ UNCHANGED <<sessions, session_options, uuids, shutdown, requests>>

(***************************************************************************)
(* lifespan shutdown: SessionManager.close_all_sessions.                   *)
(***************************************************************************)
\* the first index from i on whose id close_session finds in d; the calls
\* before it return False without suspending
NextPresent(d, snapshot, i) ==
    LET present == {j \in i..Len(snapshot) : snapshot[j] \in Keys(d)} IN
    IF present = {} THEN Len(snapshot) + 1
    ELSE CHOOSE j \in present : \A k \in present : j <= k

\* the loop of line 104 over the live dictionary instead of the list taken
\* at its start: ids stored since then join the iteration
close_all_from_live(d, cl, sh, i) ==
    LET taken == {sh.snapshot[k] : k \in 1..Len(sh.snapshot)}
        ids   == sh.snapshot \o SelectSeq(KeyList(d), LAMBDA k : k \notin taken)
        j     == NextPresent(d, ids, i) IN
    IF j > Len(ids)
    THEN /\ shutdown' = [sh EXCEPT !.pc = "done", !.i = j, !.client = None,
                                   !.snapshot = ids]
         /\ clients' = cl
    ELSE LET client == DictGet(d, ids[j]) IN
         /\ shutdown' = [sh EXCEPT !.pc = "aexit", !.i = j, !.client = client,
                                   !.snapshot = ids,
                                   !.attempted = @ \cup {ids[j]}]
         /\ clients' = [cl EXCEPT ![client].state = "closing",
                                  ![client].closes = @ + 1]

\* the loop of line 104 from index i on, up to its next suspension: the
\* await of __aexit__ in close_session (line 95), or the end of the loop
close_all_from(d, cl, sh, i) ==
    LET j == NextPresent(d, sh.snapshot, i) IN
    IF j > Len(sh.snapshot)
    THEN /\ shutdown' = [sh EXCEPT !.pc = "done", !.i = j, !.client = None]
         /\ clients' = cl
    ELSE LET client == DictGet(d, sh.snapshot[j]) IN
         /\ shutdown' = [sh EXCEPT !.pc = "aexit", !.i = j, !.client = client,
                                   !.attempted = @ \cup {sh.snapshot[j]}]
         /\ clients' = [cl EXCEPT ![client].state = "closing",
                                  ![client].closes = @ + 1]

\* lines 126-128 and 104: the snapshot of the keys
close_all_sessions ==
    /\ shutdown.pc = "serving"
    /\ close_all_from(sessions, clients,
                      [shutdown EXCEPT !.snapshot = KeyList(sessions)], 1)
    /\ UNCHANGED <<sessions, session_options, uuids, tasks, requests>>

\* lines 96-99, then the next iteration: __aexit__ returned
close_all_sessions_closed ==
    /\ shutdown.pc = "aexit"
    /\ LET session_id == shutdown.snapshot[shutdown.i] IN
       IF session_id \in Keys(sessions)
       THEN /\ close_session_del(session_id)
            /\ close_all_from(DictDel(sessions, session_id),
                              AexitReturned(shutdown.client),
                              shutdown, shutdown.i + 1)
       ELSE \* del self.sessions[session_id] raises KeyError
            /\ shutdown' = [shutdown EXCEPT !.pc = "done", !.raised = TRUE]
            /\ clients' = AexitReturned(shutdown.client)
            /\ UNCHANGED <<sessions, session_options>>
    /\ UNCHANGED <<uuids, tasks, requests>>

\* line 95: __aexit__ raised; the exception leaves the loop
close_all_sessions_close_failed ==
    /\ shutdown.pc = "aexit"
    /\ shutdown' = [shutdown EXCEPT !.pc = "done", !.raised = TRUE]
    /\ clients' = AexitRaised(shutdown.client)
    /\ UNCHANGED <<sessions, session_options, uuids, tasks, requests>>

(***************************************************************************)
(* The two response modes of the query endpoints.  generate() is written   *)
(* twice in the source, at lines 170-178 (query_claude, over sdk_query)    *)
(* and 269-276 (query_session, over client.receive_response()), with the   *)
(* same text; so are the buffered loops, at lines 190-197 and 288-296.     *)
(***************************************************************************)
\* generate(): the upstream sequence yields its next message.  The import
\* in the loop body binds the local name json before the frame is built.
generate_message(r) ==
    [r EXCEPT !.n = @ + 1, !.json = TRUE,
              !.frames = Append(@, MessageFrame(MessageStr(Message(r.n + 1))))]

\* generate(): a frame is built with json.dumps outside the loop body.  json
\* is a local name of generate() (the import statement in the loop binds
\* it), so before the first iteration the use raises UnboundLocalError: in
\* the try block it is caught at line 177/275, the handler's own
\* json.dumps raises it again, and generate() ends by raising.
generate_terminal(r, frame) ==
    IF r.json
    THEN [r EXCEPT !.pc = "done", !.frames = Append(@, frame)]
    ELSE [r EXCEPT !.pc = "done", !.aborted = TRUE]

\* generate(): the upstream sequence is exhausted (lines 176, 274)
generate_exhausted(r) == generate_terminal([r EXCEPT !.up = "end"], DoneFrame)

\* generate(): the upstream sequence raises e (lines 177-178, 275-276)
generate_raised(r, e) ==
    generate_terminal([r EXCEPT !.up = "raise"], ErrorFrame(ExcStr(e)))

\* collect_message with the new entry put first, not last
collect_message_prepend(r) ==
    [r EXCEPT !.n = @ + 1,
              !.messages = <<MessageStr(Message(r.n + 1))>> \o @]

\* buffered: messages.append(str(message))
collect_message(r) ==
    [r EXCEPT !.n = @ + 1,
              !.messages = Append(@, MessageStr(Message(r.n + 1)))]

\* buffered: the loop ends, JSONResponse({"status": "success", ...})
collect_exhausted(r) ==
    [r EXCEPT !.up = "end", !.pc = "done", !.status = 200, !.body = r.messages]

\* buffered: the upstream sequence raises e, caught at line 199/298
collect_raised(r, e) ==
    HTTPException([r EXCEPT !.up = "raise"], 500, ExcStr(e))

Querying(r) ==
    /\ r.kind \in {"query", "query_session"}
    /\ Running

\* one suspension of generate(): the await of the next upstream message
stream_step ==
    \E r \in Handlers :
    /\ Querying(r) /\ r.pc = "generate"
    /\ \/ /\ r.n < MaxMsgs
          /\ Step(r, generate_message(r))
       \/ Step(r, generate_exhausted(r))
       \/ Step(r, generate_raised(r, StreamError))
    /\ UNCHANGED <<sessions, session_options, clients, uuids, shutdown, requests>>

\* one suspension of the buffered loop
buffered_step ==
    \E r \in Handlers :
    /\ Querying(r) /\ r.pc = "collect"
    /\ \/ /\ r.n < MaxMsgs
          /\ Step(r, collect_message(r))
       \/ Step(r, collect_exhausted(r))
       \/ Step(r, collect_raised(r, StreamError))
    /\ UNCHANGED <<sessions, session_options, clients, uuids, shutdown, requests>>

\* the handler goes on to its response mode (lines 169/268); a
\* StreamingResponse sends status 200 before generate() runs
respond(r) ==
    IF r.stream
    THEN [r EXCEPT !.pc = "generate", !.status = 200]
    ELSE [r EXCEPT !.pc = "collect"]

(***************************************************************************)
(* POST /query: query_claude (stateless).                                  *)
(***************************************************************************)
\* query_claude going through the manager: the client it uses is registered
query_claude_registers ==
    /\ Arrives
    /\ \E o \in OptionInputs, prompt \in Prompts, stream \in BOOLEAN :
        LET r == [Idle EXCEPT !.kind = "query", !.stream = stream]
            session_id == Uuid4Str(uuids + 1) IN
        IF o = "invalid"
        THEN /\ Accept(HTTPException(r, 500, ExcStr(TypeError)))
             /\ UNCHANGED <<sessions, session_options, clients, uuids>>
        ELSE /\ Accept(respond(r))
             /\ uuids' = uuids + 1
             /\ clients' = Append(clients,
                    [NewClient(o, session_id) EXCEPT !.state = "open"])
             /\ sessions' = DictSet(sessions, session_id, Len(clients) + 1)
             /\ session_options' = DictSet(session_options, session_id, o)
    /\ UNCHANGED shutdown

\* lines 163-169 / 188-191: up to the first await on sdk_query
query_claude ==
    /\ Arrives
    /\ \E o \in OptionInputs, prompt \in Prompts, stream \in BOOLEAN :
        \* options and request.prompt go to sdk_query, the handler keeps
        \* neither
        LET r == [Idle EXCEPT !.kind = "query", !.stream = stream] IN
        IF o = "invalid"
        THEN Accept(HTTPException(r, 500, ExcStr(TypeError)))
        ELSE Accept(respond(r))
    /\ UNCHANGED <<sessions, session_options, clients, uuids, shutdown>>

(***************************************************************************)
(* POST /sessions/{session_id}/query: query_session.                       *)
(***************************************************************************)
\* query_session without the check of lines 261-262: client.query on None
\* raises AttributeError inside the try block of line 264
query_session_unchecked ==
    /\ Arrives
    /\ \E session_id \in SidInputs, prompt \in Prompts, stream \in BOOLEAN :
        LET r == [Idle EXCEPT !.kind = "query_session", !.sid = session_id,
                              !.stream = stream]
            client == get_session(session_id)
        IN IF client = None
           THEN /\ Accept(HTTPException(r, 500, "no attribute 'query'"))
                /\ UNCHANGED clients
           ELSE /\ Accept([r EXCEPT !.pc = "query", !.client = client])
                /\ clients' = [clients EXCEPT ![client].prompts = @ + 1]
    /\ UNCHANGED <<sessions, session_options, uuids, shutdown>>

\* lines 259-266: the lookup, and the call of client.query up to its await
query_session ==
    /\ Arrives
    /\ \E session_id \in SidInputs, prompt \in Prompts, stream \in BOOLEAN :
        \* request.prompt goes to client.query
        LET r == [Idle EXCEPT !.kind = "query_session", !.sid = session_id,
                              !.stream = stream]
            client == get_session(session_id)
        IN IF client = None
           THEN /\ Accept(HTTPException(r, 404, "Session not found"))
                /\ UNCHANGED clients
           ELSE /\ Accept([r EXCEPT !.pc = "query", !.client = client])
                /\ clients' = [clients EXCEPT ![client].prompts = @ + 1]
    /\ UNCHANGED <<sessions, session_options, uuids, shutdown>>

\* line 266 returned: lines 268-296
query_session_sent ==
    \E r \in Handlers :
    /\ Querying(r) /\ r.pc = "query"
    /\ Step(r, respond(r))
    /\ UNCHANGED <<sessions, session_options, clients, uuids, shutdown, requests>>

\* line 266 raised: lines 298-299
query_session_send_failed ==
    \E r \in Handlers :
    /\ Querying(r) /\ r.pc = "query"
    /\ Step(r, HTTPException(r, 500, ExcStr(SendError)))
    /\ UNCHANGED <<sessions, session_options, clients, uuids, shutdown, requests>>

(***************************************************************************)
(* The server: every endpoint and the lifespan.                            *)
(***************************************************************************)
Next ==
    \/ create_session
    \/ get_session_info
    \/ list_sessions_endpoint
    \/ health_check
    \/ delete_session
    \/ query_claude
    \/ query_session
    \/ create_session_opened
    \/ create_session_open_failed
    \/ delete_session_closed
    \/ delete_session_close_failed
    \/ query_session_sent
    \/ query_session_send_failed
    \/ stream_step
    \/ buffered_step
    \/ close_all_sessions
    \/ close_all_sessions_closed
    \/ close_all_sessions_close_failed

Spec == Init /\ [][Next]_vars

\* the session endpoints and the lifespan, without the query endpoints
RegistryNext ==
    \/ create_session
    \/ get_session_info
    \/ list_sessions_endpoint
    \/ health_check
    \/ delete_session
    \/ create_session_opened
    \/ create_session_open_failed
    \/ delete_session_closed
    \/ delete_session_close_failed
    \/ close_all_sessions
    \/ close_all_sessions_closed
    \/ close_all_sessions_close_failed

SpecRegistry == Init /\ [][RegistryNext]_vars

\* the query endpoints over sessions that are created and deleted
QueryNext ==
    \/ create_session
    \/ delete_session
    \/ query_claude
    \/ query_session
    \/ create_session_opened
    \/ create_session_open_failed
    \/ delete_session_closed
    \/ delete_session_close_failed
    \/ query_session_sent
    \/ query_session_send_failed
    \/ stream_step
    \/ buffered_step

SpecQuery == Init /\ [][QueryNext]_vars

\* the teardown among creates and deletes, every close returning: no
\* __aexit__ raises, and the one the teardown awaits returns in the end
TeardownNext ==
    \/ create_session
    \/ delete_session
    \/ create_session_opened
    \/ create_session_open_failed
    \/ delete_session_closed
    \/ close_all_sessions
    \/ close_all_sessions_closed

SpecTeardown ==
    Init /\ [][TeardownNext]_vars /\ WF_vars(close_all_sessions_closed)

(***************************************************************************)
(* Vocabulary of the properties.                                           *)
(***************************************************************************)
\* the handler states this step adds: the state a handler moved to, or the
\* handler of the request that arrived
NewRecords ==
    {r2 \in BagToSet(tasks') : CopiesIn(r2, tasks') > CopiesIn(r2, tasks)}

\* a request arrives in this step
Arrival == requests' = requests + 1

\* the requests of one endpoint that have been answered
Answered(kind) == {r \in Handlers : r.kind = kind /\ r.pc = "done"}

\* the client objects the registry holds
Values(d) == {d[i].val : i \in 1..Len(d)}

\* the client constructed for a session id
ClientOf(session_id) ==
    CHOOSE c \in 1..Len(clients) : clients[c].sid = session_id

\* the positions of the terminal frames of a stream
Terminals(frames) ==
    {i \in 1..Len(frames) : frames[i].type \in {"done", "error"}}

(***************************************************************************)
(* C1.  Once close_all_sessions has ended, by returning or by raising, no  *)
(* session id of the snapshot it worked on remains in the registry,        *)
(* whichever client closes raised.  Stated as claimed; the code violates   *)
(* it: an __aexit__ that raises leaves close_session before line 96.       *)
(***************************************************************************)
C1_ShutdownEmptiesRegistry ==
    shutdown.pc = "done" =>
        \A i \in 1..Len(shutdown.snapshot) :
            shutdown.snapshot[i] \notin Keys(sessions)

(***************************************************************************)
(* C2.  When a close_session call on a present id ends, the id is absent   *)
(* from the registry, whether the client's close returned or raised; on an *)
(* absent id the call returns False (404 from DELETE) and changes nothing. *)
(* Stated as claimed; the code violates the first half.                    *)
(***************************************************************************)
C2_CloseStep ==
    /\ \A r2 \in NewRecords :
        (r2.kind = "delete" /\ r2.pc = "done") =>
            IF r2.found
            THEN r2.sid \notin Keys(sessions')
            ELSE /\ r2.status = 404
                 /\ UNCHANGED <<sessions, session_options, clients>>
    /\ (shutdown.pc = "aexit" /\ shutdown' # shutdown) =>
            shutdown.snapshot[shutdown.i] \notin Keys(sessions')

\* C2: every step that ends a close_session call leaves the id absent (present id) or changes nothing (absent id)
C2_CloseRemovesEntry == [][C2_CloseStep]_vars

(***************************************************************************)
(* C3.  Once close_all_sessions has ended, a close has been attempted on   *)
(* the client of every id of its snapshot, whatever the other closes did.  *)
(* Stated as claimed; the code violates it: the first close that raises    *)
(* ends the loop of line 104.                                              *)
(***************************************************************************)
C3_EverySnapshotIdAttempted ==
    shutdown.pc = "done" =>
        \A i \in 1..Len(shutdown.snapshot) :
            clients[ClientOf(shutdown.snapshot[i])].closes > 0

(***************************************************************************)
(* C4.  Every session id in the registry maps to an open client: one whose *)
(* open has returned and whose close has not started.  Stated as claimed;  *)
(* the code violates it: line 95 awaits the close before line 96 removes   *)
(* the entry.                                                              *)
(***************************************************************************)
C4_RegistryHoldsOpenClients ==
    \A i \in 1..Len(sessions) : clients[sessions[i].val].state = "open"

(***************************************************************************)
(* C5.  A stream never carries a message frame after a terminal frame,     *)
(* and once it has ended it carries exactly one terminal frame, done or    *)
(* error.  Stated as claimed; the code violates it when the upstream       *)
(* sequence ends or raises before its first message.                       *)
(***************************************************************************)
C5_OneTerminalFrame ==
    \A r \in Handlers :
        (r.kind \in {"query", "query_session"} /\ r.stream /\ r.status = 200) =>
            /\ \A i \in Terminals(r.frames) : i = Len(r.frames)
            /\ r.pc = "done" => Cardinality(Terminals(r.frames)) = 1

(***************************************************************************)
(* C6.  A DELETE of an id that is in the registry answers 200 and the id   *)
(* is in no later listing; a DELETE of an id that is not (any more)        *)
(* answers 404.  Stated as claimed; the code violates the first half when  *)
(* the client's close raises (C2) or another close of the id ends first.   *)
(***************************************************************************)
C6_DeleteKnownSession ==
    \A r \in Answered("delete") :
        IF r.found
        THEN /\ r.status = 200
             /\ \A i \in 1..Len(list_sessions) : list_sessions[i] # r.sid
        ELSE r.status = 404

(***************************************************************************)
(* C7.  A query_session request whose session id is not in the registry    *)
(* is answered 404 "Session not found", for every prompt and both values   *)
(* of stream, and the step changes neither dict nor any client object: no  *)
(* client receives a prompt.                                               *)
(***************************************************************************)
C7_QueryStep ==
    Arrival =>
        \A r2 \in NewRecords :
            (r2.kind = "query_session" /\ r2.sid \notin Keys(sessions)) =>
                /\ r2.pc = "done"
                /\ r2.status = 404
                /\ r2.detail = "Session not found"
                /\ UNCHANGED <<sessions, session_options, clients>>

\* C7: every query_session request for an id not in the registry is answered 404 by a step that mutates nothing
C7_QueryUnknownSession == [][C7_QueryStep]_vars

\* an unknown id was queried while another session is live
C7_Witness ==
    \E r \in Answered("query_session") :
        /\ r.status = 404
        /\ Len(sessions) > 0
        /\ r.sid \notin Keys(sessions)

(***************************************************************************)
(* C8.  The step in which POST /sessions answers 200 returns a non-empty   *)
(* id that no live session has, stores under it the client this request    *)
(* has just opened, which no other session holds, makes the listing        *)
(* include the id and the count grow by exactly 1, and leaves every other  *)
(* entry as it was.  In every state no two ids share a client.             *)
(***************************************************************************)
C8_CreateStep ==
    /\ \A r2 \in NewRecords :
        (r2.kind = "create" /\ r2.pc = "done" /\ r2.status = 200) =>
            /\ r2.body = <<r2.sid>>
            /\ r2.sid # ""
            /\ r2.sid \notin Keys(sessions)
            /\ r2.client \notin Values(sessions)
            /\ clients[r2.client].state = "opening"
            /\ clients'[r2.client].state = "open"
            /\ Keys(sessions') = Keys(sessions) \cup {r2.sid}
            /\ DictGet(sessions', r2.sid) = r2.client
            /\ \E i \in 1..Len(list_sessions') : list_sessions'[i] = r2.sid
            /\ Len(sessions') = Len(sessions) + 1
            /\ \A k \in Keys(sessions) :
                /\ DictGet(sessions', k) = DictGet(sessions, k)
                /\ DictGet(session_options', k) = DictGet(session_options, k)
    /\ \A i, j \in 1..Len(sessions') :
        i # j => /\ sessions'[i].key # sessions'[j].key
                 /\ sessions'[i].val # sessions'[j].val

\* C8: every step that answers POST /sessions with 200 adds exactly the new id with its own client
C8_CreateAddsOneSession == [][C8_CreateStep]_vars

\* a create was answered 200 while another session was live
C8_Witness ==
    \E r \in Answered("create") :
        /\ r.status = 200
        /\ Len(sessions) = 2
        /\ sessions[2].key = r.sid

(***************************************************************************)
(* C9.  When the options are rejected or the client's open raises, the     *)
(* step answers POST /sessions with 500, changes neither dict, constructs  *)
(* no further client and never opens the failed one again; every client    *)
(* whose open raises is answered that way; and no id in the registry maps  *)
(* to a client whose open has not returned.                                *)
(***************************************************************************)
C9_CreateStep ==
    /\ \A r2 \in NewRecords :
        (r2.kind = "create" /\ r2.pc = "done" /\ r2.status # 200) =>
            /\ r2.status = 500
            /\ r2.body = <<>>
            /\ UNCHANGED <<sessions, session_options>>
            /\ Len(clients') = Len(clients)
            /\ r2.client # None => clients'[r2.client].state = "open_failed"
    /\ \A c \in 1..Len(clients) :
        /\ (clients[c].state = "opening" /\ clients'[c].state = "open_failed") =>
                \E r2 \in NewRecords :
                    /\ r2.kind = "create" /\ r2.client = c
                    /\ r2.pc = "done" /\ r2.status = 500
        /\ clients[c].state = "open_failed" => clients'[c].state = "open_failed"
    /\ \A i \in 1..Len(sessions') :
        clients'[sessions'[i].val].state \notin {"opening", "open_failed"}

\* C9: every failed POST /sessions is answered 500 and leaves the registry as it was, without a retry
C9_CreateFailureLeavesRegistry == [][C9_CreateStep]_vars

\* a client failed to open while another session was live
C9_Witness ==
    \E r \in Answered("create") :
        /\ r.status = 500
        /\ r.client # None
        /\ clients[r.client].state = "open_failed"
        /\ Len(sessions) > 0

(***************************************************************************)
(* C10.  A buffered query whose upstream sequence completes answers 200    *)
(* with the str() of every upstream message, one entry each, in the order  *)
(* they were yielded; one whose upstream sequence raises answers 500 with  *)
(* no message list.                                                        *)
(***************************************************************************)
C10_BufferedQuery ==
    \A r \in Handlers :
        (r.kind \in {"query", "query_session"} /\ ~r.stream /\ r.pc = "done") =>
            /\ r.up = "end" =>
                /\ r.status = 200
                /\ r.body = [i \in 1..r.n |-> MessageStr(Message(i))]
            /\ r.up = "raise" =>
                /\ r.status = 500
                /\ r.body = <<>>
                /\ r.detail = ExcStr(StreamError)

\* a session query returned two messages, and a stateless one failed after
\* its first message
C10_Witness ==
    /\ \E r \in Answered("query_session") :
        ~r.stream /\ r.up = "end" /\ Len(r.body) >= 2
    /\ \E r \in Answered("query") :
        ~r.stream /\ r.up = "raise" /\ r.n >= 1

(***************************************************************************)
(* C11.  A stream whose upstream sequence raises keeps the status 200 it   *)
(* was started with and carries the message frames received so far         *)
(* followed by one error frame with the exception's text; a buffered       *)
(* query whose upstream sequence raises answers 500.  Stated as claimed;   *)
(* the code violates it when the failure comes before the first message    *)
(* (the unbound json of C5): the stream then carries no error frame.       *)
(***************************************************************************)
C11_StreamErrorInBand ==
    \A r \in Handlers :
        (r.kind \in {"query", "query_session"} /\ r.up = "raise") =>
            IF r.stream
            THEN /\ r.status = 200
                 /\ r.frames =
                        [i \in 1..r.n |-> MessageFrame(MessageStr(Message(i)))]
                        \o <<ErrorFrame(ExcStr(StreamError))>>
            ELSE r.status = 500

(***************************************************************************)
(* C12.  Every response with status 500 carries the text of the exception  *)
(* that caused it: str(e) of the close, send, open, options or upstream    *)
(* failure.  Stated as claimed; the code violates it on DELETE, whose      *)
(* handler has no try/except: the framework answers with its own text.     *)
(***************************************************************************)
C12_ErrorsCarryExceptionText ==
    \A r \in Handlers :
        (r.pc = "done" /\ r.status = 500) =>
            r.detail \in {ExcStr(e) : e \in {TypeError, OpenError, CloseError,
                                             KeyError, SendError, StreamError}}

(***************************************************************************)
(* C13.  Every GET /health is answered 200 with active_sessions equal to   *)
(* the number of ids in the registry at that moment, whatever creates and  *)
(* closes are suspended.                                                   *)
(***************************************************************************)
C13_HealthStep ==
    Arrival =>
        \A r2 \in NewRecords :
            r2.kind = "health" =>
                /\ r2.pc = "done"
                /\ r2.status = 200
                /\ r2.count >= 0
                /\ r2.count = Cardinality(Keys(sessions))
                /\ UNCHANGED <<sessions, session_options, clients>>

\* C13: every health check answers 200 with the registry's size
C13_HealthCountsRegistry == [][C13_HealthStep]_vars

\* a health check answered while a create was suspended in __aenter__ and
\* one session was live
C13_Witness ==
    /\ \E r \in Answered("health") : r.count = 1 /\ Len(sessions) = 1
    /\ \E r \in Handlers : r.kind = "create" /\ r.pc = "aenter"

(***************************************************************************)
(* C14.  No step of a stateless query (its arrival, a step of its stream   *)
(* or of its buffered loop, its answer) changes the registry: ids, clients *)
(* and options are after the step what they were before it, for every      *)
(* options value, both modes and every upstream outcome.                   *)
(***************************************************************************)
C14_QueryStep ==
    (\E r2 \in NewRecords : r2.kind = "query") =>
        UNCHANGED <<sessions, session_options, clients, uuids>>

\* C14: a stateless query leaves the registry as it found it
C14_QueryCreatesNoSession == [][C14_QueryStep]_vars

\* with one session live, a streamed query ran to its end and another
\* query was answered 500 after its upstream raised
C14_Witness ==
    /\ Len(sessions) = 1
    /\ \E r \in Answered("query") : r.stream /\ r.up = "end" /\ r.n > 0
    /\ \E r \in Answered("query") : r.up = "raise" /\ r.status = 500

(***************************************************************************)
(* C15.  The close of a client is invoked at most once, and no DELETE      *)
(* whose lookup found the session and whose close returned is answered     *)
(* anything but 200.  Stated as claimed; the code violates it: two         *)
(* close_session calls that both pass the membership test of line 93       *)
(* before either reaches line 96 both call __aexit__, and the second del   *)
(* raises KeyError.                                                        *)
(***************************************************************************)
C15_CloseOnce ==
    /\ \A c \in 1..Len(clients) : clients[c].closes <= 1
    /\ \A r \in Answered("delete") :
        (r.found /\ clients[r.client].state = "closed") => r.status = 200

(***************************************************************************)
(* C16.  As claimed: between the lookup of a session query and the end of  *)
(* its drain no close of its client is invoked, so that the send and the   *)
(* drain never run on a client whose close has started.  The code does     *)
(* not keep to it: the lookup of line 259, the await of line 266 and each  *)
(* await of the drain are separate steps, and close_session runs between   *)
(* them.                                                                   *)
(***************************************************************************)
C16_NoCloseDuringQuery ==
    [][\A r \in Handlers :
        (r.kind = "query_session" /\ r.pc \in {"query", "generate", "collect"})
            => clients'[r.client].closes = clients[r.client].closes]_vars

\* what the code does keep to: a prompt goes only to the client the
\* registry holds under the request's id at the lookup, a client whose open
\* succeeded, and in the step of the lookup; the query's own steps invoke
\* no close
C16_QueryStep ==
    /\ \A c \in 1..Len(clients) :
        clients'[c].prompts # clients[c].prompts =>
            /\ Arrival
            /\ clients'[c].prompts = clients[c].prompts + 1
            /\ clients[c].state \notin {"opening", "open_failed"}
            /\ \E r2 \in NewRecords :
                /\ r2.kind = "query_session" /\ r2.pc = "query"
                /\ r2.sid \in Keys(sessions)
                /\ r2.client = c /\ c = DictGet(sessions, r2.sid)
    /\ \A r2 \in NewRecords :
        (r2.kind = "query_session" /\ r2.client # None) =>
            /\ clients'[r2.client].sid = r2.sid
            /\ clients'[r2.client].prompts >= 1
            /\ clients'[r2.client].closes = clients[r2.client].closes
            /\ UNCHANGED <<sessions, session_options>>

(***************************************************************************)
(* C16, amended: a session query sends its prompt to, and drains from, the *)
(* client registered under its id at the lookup and no other; the close of *)
(* that client may have been invoked before the lookup or at any step up   *)
(* to the end of the drain, and the query goes on all the same.            *)
(***************************************************************************)
C16_QueriesRegisteredClient == [][C16_QueryStep]_vars

\* a drain that received a message from a client whose close has returned
\* and whose id has left the registry
C16_Witness ==
    \E r \in Handlers :
        /\ r.kind = "query_session" /\ r.pc \in {"generate", "collect"}
        /\ r.n > 0
        /\ clients[r.client].state = "closed"
        /\ r.sid \notin Keys(sessions)

(***************************************************************************)
(* C17.  After every step, every client whose open succeeded is stored in  *)
(* the registry under exactly one id or has had its close invoked; and a   *)
(* step that removes an entry is one in which a close of its client        *)
(* returns.                                                                *)
(***************************************************************************)
C17_Step ==
    /\ \A c \in 1..Len(clients') :
        clients'[c].state \notin {"opening", "open_failed"} =>
            \/ Cardinality({i \in 1..Len(sessions') : sessions'[i].val = c}) = 1
            \/ clients'[c].closes > 0
    /\ \A k \in Keys(sessions) \ Keys(sessions') :
        LET c == DictGet(sessions, k) IN
        /\ clients[c].closes > 0
        /\ clients[c].state # "closed"
        /\ clients'[c].state = "closed"

\* C17: no opened client outside the registry unless its close was invoked;
\* no entry removed before its client's close returned
C17_NoClientLeak == [][C17_Step]_vars

\* one session was removed after its client's close returned while another
\* client, opened and never closed, is stored
C17_Witness ==
    /\ \E c \in 1..Len(clients) :
        clients[c].state = "closed" /\ clients[c].sid \notin Keys(sessions)
    /\ \E c \in 1..Len(clients) :
        /\ clients[c].state = "open" /\ clients[c].closes = 0
        /\ DictGet(sessions, clients[c].sid) = c

(***************************************************************************)
(* C18.  After every step sessions and session_options have the same keys  *)
(* in the same order, and the options stored under an id that stays in the *)
(* registry are those its client was created with.                         *)
(***************************************************************************)
C18_Step ==
    /\ KeyList(sessions') = KeyList(session_options')
    /\ \A k \in Keys(session_options) \cap Keys(session_options') :
        DictGet(session_options', k) = DictGet(session_options, k)
    /\ \A k \in Keys(session_options') :
        DictGet(session_options', k) = clients'[DictGet(sessions', k)].options

\* C18: the two dictionaries of the manager keep the same keys, and stored
\* options never change
C18_OptionsFollowSessions == [][C18_Step]_vars

\* a session created with options outlives the removal of an older one
C18_Witness ==
    /\ Len(session_options) = 1
    /\ session_options[1].val = "custom"
    /\ session_options[1].key = Uuid4Str(2)
    /\ \E r \in Answered("delete") : r.status = 200

(***************************************************************************)
(* C19.  close_all_sessions works on the list of ids taken at its start.   *)
(***************************************************************************)
SnapshotIds == {shutdown.snapshot[k] : k \in 1..Len(shutdown.snapshot)}

\* the list is not taken again; the teardown attempts, closes and removes
\* ids of the list only, and stores none
C19_Step ==
    /\ shutdown.pc # "serving" => shutdown'.snapshot = shutdown.snapshot
    /\ shutdown'.attempted \subseteq
           {shutdown'.snapshot[k] : k \in 1..Len(shutdown'.snapshot)}
    /\ shutdown' # shutdown =>
        /\ Keys(sessions') \subseteq Keys(sessions)
        /\ \A k \in Keys(sessions) \ Keys(sessions') : k \in shutdown'.attempted
        /\ \A c \in 1..Len(clients) :
            clients'[c].closes # clients[c].closes =>
                clients[c].sid \in shutdown'.attempted

\* once the teardown has returned, a session stored after its start, on
\* which no DELETE was called, is in the registry, its client open
C19_LaterSessionsLive ==
    shutdown.pc = "done" =>
        \A c \in 1..Len(clients) :
            (clients[c].state # "opening" /\ clients[c].state # "open_failed"
             /\ clients[c].sid \notin SnapshotIds /\ clients[c].closes = 0)
                => /\ clients[c].state = "open"
                   /\ DictGet(sessions, clients[c].sid) = c

\* C19: when every close returns the teardown ends, having attempted only
\* ids of the list taken at its start, whatever creates arrive meanwhile;
\* sessions stored after its start are live when it returns
C19_TeardownOfSnapshot ==
    /\ [][C19_Step]_vars
    /\ [](C19_LaterSessionsLive)
    /\ (shutdown.pc = "aexit") ~> (shutdown.pc = "done")

\* the teardown returned after closing the one session of its list, and a
\* session whose create was suspended at its start is live
C19_Witness ==
    /\ shutdown.pc = "done" /\ ~shutdown.raised
    /\ shutdown.attempted = SnapshotIds /\ SnapshotIds # {}
    /\ \E k \in Keys(sessions) :
        /\ k \notin SnapshotIds
        /\ clients[DictGet(sessions, k)].state = "open"

====
